---- MODULE Spec2Model ----
(***************************************************************************)
(* The chat flow of the Job Match AI component (src/index.jsx): the        *)
(* transcript chatHistory, the input buffer chatInput, the pending flag    *)
(* isChatLoading, the completion requests in flight, and the callback      *)
(* sendMessageToGemini, which reads chatHistory from the render that       *)
(* created it (useCallback, line 105).                                     *)
(*                                                                         *)
(* Text is a sequence of string tokens: a user message is a sequence of    *)
(* one-character strings, so that trim() is computed, and a reply is the   *)
(* sequence of the pieces line 94 concatenates.                            *)
(*                                                                         *)
(* Spec       : the component as shipped: sendMessageToGemini is reached   *)
(*              only through the form (handleChatSubmit), whose input and  *)
(*              button are disabled from the rendered state (lines 340,    *)
(*              349).                                                      *)
(* SpecDirect : the submit operation on its own: a caller invokes the      *)
(*              callback of the last render directly, with any message     *)
(*              and at any time.                                           *)
(* SpecRec    : the recommendation flow (handleSubmit, lines 113-155)      *)
(*              through its form.                                          *)
(* SpecApp    : the whole component: both forms side by side.              *)
(***************************************************************************)
EXTENDS Integers, Sequences, FiniteSets, TLC

VARIABLES
    chatHistory,    \* useState, lines 27-29: the transcript
    chatInput,      \* useState, line 30: the input buffer
    isChatLoading,  \* useState, line 31: the pending flag
    rendered,       \* the state as of the last committed render: what the
                    \* callbacks' closures and the DOM's disabled flags hold
    inflight,       \* fetch calls (line 61) that have not settled yet
    requestCount,   \* number of fetch calls made so far
    exchanges,      \* history variable: per request id, the message
                    \* submitted, the user turn the submit appended and
                    \* the turn the request's resolution appended
    lastStep,       \* history variable: the operation that led here, with
                    \* its input
    skillsText,       \* useState, line 18
    resumeFile,       \* useState, line 19: the selected file's name or NoFile
    recommendations,  \* useState, line 20
    skillsUsed,       \* useState, line 21: the summary shown as "Input Analyzed"
    isLoading,        \* useState, line 22: the recommendation pending flag
    error,            \* useState, line 23
    timers,           \* handleSubmit calls waiting at line 139, each with the
                      \* skillsText and resumeFile its closure captured
    renderedLoading,  \* isLoading as of the last committed render: what the
                      \* recommendation form's disabled flags hold
    analysed          \* history variable: the inputs of every analysis
                      \* completed so far, with the summary each produced

chatVars == <<chatHistory, chatInput, isChatLoading, rendered, inflight,
              requestCount, exchanges>>

recVars == <<skillsText, resumeFile, recommendations, skillsUsed, isLoading,
             error, timers, renderedLoading, analysed>>

vars == <<chatHistory, chatInput, isChatLoading, rendered, inflight,
          requestCount, exchanges, lastStep, skillsText, resumeFile,
          recommendations, skillsUsed, isLoading, error, timers,
          renderedLoading, analysed>>

(* Bound of the model: fetch calls per session. *)
MaxRequests == 2

-----------------------------------------------------------------------------
(* Strings *)

Whitespace == {" "}

\* The messages a caller or the input element can hold.
Messages ==
    { <<>>, <<" ", " ">>, <<"a">>, <<" ", "a", " ", "b", " ">> }

RECURSIVE TrimStart(_)
TrimStart(s) ==
    IF s # <<>> /\ Head(s) \in Whitespace THEN TrimStart(Tail(s)) ELSE s

RECURSIVE TrimEnd(_)
TrimEnd(s) ==
    IF s # <<>> /\ s[Len(s)] \in Whitespace
    THEN TrimEnd(SubSeq(s, 1, Len(s) - 1))
    ELSE s

\* A blank check that forgets to trim.
TrimNothing(s) == s

\* String.prototype.trim
Trim(s) == TrimEnd(TrimStart(s))

\* JavaScript truthiness of a string held as a token sequence: non-empty.
Truthy(s) == s # <<>>

-----------------------------------------------------------------------------
(* Turns *)

GreetingText ==
    << "Hello! I'm Job Match AI's assistant. Ask me anything about career paths, job roles, or resume tips." >>

ApologyText ==
    << "Sorry, I hit an error connecting to the intelligence engine. Please try again." >>

FallbackText == << "Sorry, I couldn't get a clear response." >>

SourcesHeader == << "\n\n**Sources:**\n" >>

InitialChatHistory == << [role |-> "model", text |-> GreetingText] >>

UserTurn(message) == [role |-> "user", text |-> message]

ApologyTurn == [role |-> "model", text |-> ApologyText]

\* What the message area reads as a turn's sources (line 308): a turn
\* without the field shows none.
SourcesOf(turn) == IF "sources" \in DOMAIN turn THEN turn.sources ELSE <<>>

-----------------------------------------------------------------------------
(* The completion API's answers *)

\* Attributions as the API returns them; a missing web.uri or web.title
\* (undefined at lines 84-85) and an empty one are both "", falsy at line 87.
ValidA  == [uri |-> "https://a.example/x", title |-> "A"]
ValidB  == [uri |-> "https://b.example/y", title |-> "B"]
NoTitle == [uri |-> "https://c.example/z", title |-> ""]
NoUri   == [uri |-> "", title |-> "D"]
BadUri  == [uri |-> "not a url", title |-> "E"]

AttributionLists ==
    { <<>>,
      <<NoTitle, NoUri>>,
      <<ValidB, NoTitle, ValidA>>,
      <<ValidA, BadUri>> }

ReplyTexts == { <<"r">> }

\* candidates[0] of a parsed body. text <<>> is a missing or empty
\* content.parts[0].text; hasGrounding says whether
\* groundingMetadata.groundingAttributions is present.
Candidates ==
    [text : ReplyTexts, hasGrounding : {TRUE}, attributions : AttributionLists]
    \cup [text : ReplyTexts, hasGrounding : {FALSE}, attributions : {<<>>}]
    \cup [text : {<<>>}, hasGrounding : {TRUE},
          attributions : {<<ValidB, NoTitle, ValidA>>}]

NoBody == <<>>

\* What a fetch can settle with: a rejection (network failure), a non-2xx
\* status, a 2xx whose body is not JSON, a 2xx with a parsed body.
Responses ==
    [net : {"fail"}, status : {0}, json : {"none"}, candidates : {NoBody}]
    \cup [net : {"ok"}, status : {500}, json : {"none"}, candidates : {NoBody}]
    \cup [net : {"ok"}, status : {200}, json : {"malformed"}, candidates : {NoBody}]
    \cup [net : {"ok"}, status : {200}, json : {"ok"}, candidates : {NoBody}]
    \cup { [net |-> "ok", status |-> 200, json |-> "ok", candidates |-> <<c>>] :
             c \in Candidates }

\* A status check that lets every status through.
ResponseOkAlways(resp) == TRUE

\* Response.ok
ResponseOk(resp) == resp.status >= 200 /\ resp.status <= 299

\* new URL(uri) parses; it throws a TypeError otherwise.
UrlParses(uri) ==
    uri \in {"https://a.example/x", "https://b.example/y", "https://c.example/z"}

\* new URL(uri).hostname
Hostname(uri) ==
    CASE uri = "https://a.example/x" -> "a.example"
      [] uri = "https://b.example/y" -> "b.example"
      [] uri = "https://c.example/z" -> "c.example"

\* result.candidates?.[0] is defined (line 72)
HasCandidate(resp) == Len(resp.candidates) > 0

\* The condition of line 76: a candidate with a truthy first text part.
HasText(resp) == HasCandidate(resp) /\ Truthy(resp.candidates[1].text)

\* responseText, lines 73-77
ResponseText(resp) ==
    IF HasText(resp) THEN resp.candidates[1].text ELSE FallbackText

\* The predicate of line 87
KeepSource(source) == source.uri # "" /\ source.title # ""

\* An extraction that reads the attributions whether or not the candidate
\* has text.
ExtractSourcesWithoutText(resp) ==
    IF HasCandidate(resp) /\ resp.candidates[1].hasGrounding
    THEN LET attributions == resp.candidates[1].attributions
             mapped == [i \in 1..Len(attributions) |->
                          [uri |-> attributions[i].uri,
                           title |-> attributions[i].title]]
         IN  SelectSeq(mapped, KeepSource)
    ELSE <<>>

\* sources, lines 74-88: read only inside the branch of line 76
ExtractSources(resp) ==
    IF HasText(resp) /\ resp.candidates[1].hasGrounding
    THEN LET attributions == resp.candidates[1].attributions
             mapped == [i \in 1..Len(attributions) |->
                          [uri |-> attributions[i].uri,
                           title |-> attributions[i].title]]
         IN  SelectSeq(mapped, KeepSource)
    ELSE <<>>

\* `[${i + 1}] ${s.title} (${new URL(s.uri).hostname})` for the source at
\* position n (n = i + 1), line 94
CitationLine(s, n) ==
    << "[", ToString(n), "] ", s.title, " (", Hostname(s.uri), ")" >>

\* Array.prototype.join
RECURSIVE Join(_, _)
Join(lines, sep) ==
    IF lines = <<>> THEN <<>>
    ELSE IF Len(lines) = 1 THEN Head(lines)
    ELSE Head(lines) \o <<sep>> \o Join(Tail(lines), sep)

\* The text line 94 appends
CitationBlock(sources) ==
    SourcesHeader
    \o Join([i \in 1..Len(sources) |-> CitationLine(sources[i], i)], "\n")

\* fullResponse, lines 92-95
FullResponse(resp) ==
    LET sources == ExtractSources(resp)
    IN  IF Len(sources) > 0
        THEN ResponseText(resp) \o CitationBlock(sources)
        ELSE ResponseText(resp)

\* Whether the try block of lines 54-97 throws: fetch rejects (61), the
\* status is not 2xx (67-69), response.json() rejects (71), or new URL
\* throws on a kept source's uri (94).
Throws(resp) ==
    \/ resp.net = "fail"
    \/ ~ResponseOk(resp)
    \/ resp.json = "malformed"
    \/ \E i \in 1..Len(ExtractSources(resp)) :
          ~UrlParses(ExtractSources(resp)[i].uri)

\* The turn a settled fetch appends: line 97, or line 101 from the catch.
ReplyTurn(resp) ==
    IF Throws(resp)
    THEN ApologyTurn
    ELSE [role |-> "model", text |-> FullResponse(resp),
          sources |-> ExtractSources(resp)]

-----------------------------------------------------------------------------
(* The recommendation flow's data *)

\* MOCK_RECOMMENDATIONS, lines 5-12
MOCK_RECOMMENDATIONS ==
    << "1. Software Development Intern (Python/Database)",
       "2. Junior Backend Developer (SQL/MongoDB)",
       "3. Mid-Level Python Software Engineer",
       "4. Data Engineer (Database & ETL Focus)",
       "5. Senior Backend Engineer (Distributed Systems)",
       "6. Database Architect (MongoDB/SQL Optimization)" >>

\* MOCK_SKILLS_FROM_RESUME, line 14
MOCK_SKILLS_FROM_RESUME ==
    "Python, SQL, MongoDB, Database Management, CRUD application logic, Teamwork, Communication."

\* resumeFile is null (lines 19, 115, 119)
NoFile == "null"

\* What the file input can hand over: a file, or nothing when the dialog
\* is cancelled (file || null, line 115).
Files == {NoFile, "resume.pdf"}

\* What the skills textarea can hold.
SkillsTexts == { <<>>, <<" ", " ">>, <<" ", "P", "y", " ">> }

\* error is null (lines 23, 126)
NoError == <<>>

ValidationError ==
    << "Please enter skills or select a file to begin the analysis." >>

\* A validation that looks at the raw text and forgets to trim.
HasInputUntrimmed(text, file) == Truthy(text) \/ file # NoFile

\* The negation of line 130: some input is present.
HasInput(text, file) == Truthy(Trim(text)) \/ file # NoFile

\* A summary that tests and quotes the raw text and forgets to trim.
CombinedSkillsUntrimmed(text) ==
    IF Truthy(text)
    THEN <<"[From Textbox: ">> \o text
            \o <<"] + [From Resume: ", MOCK_SKILLS_FROM_RESUME, "]">>
    ELSE <<MOCK_SKILLS_FROM_RESUME>>

\* A summary that never mentions the textbox.
CombinedSkillsResumeOnly(text) == <<MOCK_SKILLS_FROM_RESUME>>

\* combinedSkills, lines 141-144
CombinedSkills(text) ==
    IF Truthy(Trim(text))
    THEN <<"[From Textbox: ">> \o Trim(text)
            \o <<"] + [From Resume: ", MOCK_SKILLS_FROM_RESUME, "]">>
    ELSE <<MOCK_SKILLS_FROM_RESUME>>

-----------------------------------------------------------------------------
(* The component *)

\* What a render commits: the state the next closures and the DOM hold.
View ==
    [chatHistory |-> chatHistory, chatInput |-> chatInput,
     isChatLoading |-> isChatLoading]

Init ==
    /\ chatHistory = InitialChatHistory
    /\ chatInput = <<>>
    /\ isChatLoading = FALSE
    /\ rendered = [chatHistory |-> InitialChatHistory, chatInput |-> <<>>,
                   isChatLoading |-> FALSE]
    /\ inflight = {}
    /\ requestCount = 0
    /\ exchanges = <<>>
    /\ lastStep = [op |-> "init"]
    /\ skillsText = <<>>
    /\ resumeFile = NoFile
    /\ recommendations = <<>>
    /\ skillsUsed = <<>>
    /\ isLoading = FALSE
    /\ error = NoError
    /\ timers = {}
    /\ renderedLoading = FALSE
    /\ analysed = {}

\* A transcript that puts the new turn first (unshift for push).
NewChatHistoryPrepended(message) ==
    <<UserTurn(message)>> \o rendered.chatHistory

\* newChatHistory, line 47: chatHistory is the closure's, the transcript
\* of the render that created the callback.
NewChatHistory(message) == Append(rendered.chatHistory, UserTurn(message))

\* A payload that sends only a window of the last two turns.
ContentsLastTwo(history) ==
    LET from == IF Len(history) > 2 THEN Len(history) - 1 ELSE 1
    IN  [i \in 1..(Len(history) - from + 1) |->
            [role |-> history[from + i - 1].role,
             parts |-> << [text |-> history[from + i - 1].text] >>]]

\* payload.contents, line 56
Contents(history) ==
    [i \in 1..Len(history) |->
        [role |-> history[i].role, parts |-> << [text |-> history[i].text] >>]]

\* A submit that leaves the input buffer as it was.
SendMessageKeepsInput(message) ==
    IF ~Truthy(Trim(message))
    THEN UNCHANGED <<chatHistory, chatInput, isChatLoading, inflight,
                     requestCount, exchanges>>
    ELSE /\ chatHistory' = NewChatHistory(message)
         /\ chatInput' = chatInput
         /\ isChatLoading' = TRUE
         /\ requestCount' = requestCount + 1
         /\ inflight' = inflight \cup
                { [id |-> requestCount + 1,
                   contents |-> Contents(NewChatHistory(message))] }
         /\ exchanges' = Append(exchanges,
                [message |-> message,
                 turn |-> UserTurn(message),
                 reply |-> <<>>])

\* sendMessageToGemini up to its first await, lines 44-65: the early
\* return, the three state writes, and the fetch call.
SendMessageToGemini(message) ==
    IF ~Truthy(Trim(message))
    THEN UNCHANGED <<chatHistory, chatInput, isChatLoading, inflight,
                     requestCount, exchanges>>
    ELSE /\ chatHistory' = NewChatHistory(message)
         /\ chatInput' = <<>>
         /\ isChatLoading' = TRUE
         /\ requestCount' = requestCount + 1
         /\ inflight' = inflight \cup
                { [id |-> requestCount + 1,
                   contents |-> Contents(NewChatHistory(message))] }
         /\ exchanges' = Append(exchanges,
                [message |-> message,
                 turn |-> UserTurn(message),
                 reply |-> <<>>])

\* The model stops issuing requests at MaxRequests.
WithinBound(message) == Truthy(Trim(message)) => requestCount < MaxRequests

\* A caller invokes the callback of the last render with any message.
Submit(message) ==
    /\ WithinBound(message)
    /\ SendMessageToGemini(message)
    /\ UNCHANGED rendered
    /\ UNCHANGED recVars
    /\ lastStep' = [op |-> "submit", message |-> message]

\* The form's submit event, lines 107-110 and 333-352: the button is
\* enabled from the rendered state, the message is the rendered input, and
\* React commits the handler's updates before the next event.
HandleChatSubmit ==
    /\ ~(rendered.isChatLoading \/ ~Truthy(Trim(rendered.chatInput)))
    /\ WithinBound(rendered.chatInput)
    /\ SendMessageToGemini(rendered.chatInput)
    /\ rendered' = [chatHistory |-> chatHistory', chatInput |-> chatInput',
                    isChatLoading |-> isChatLoading']
    /\ UNCHANGED recVars
    /\ lastStep' = [op |-> "handleChatSubmit", message |-> rendered.chatInput]

\* The input's onChange, lines 337 and 340: typing while it is enabled.
SetChatInput(value) ==
    /\ ~rendered.isChatLoading
    /\ chatInput' = value
    /\ rendered' = [chatHistory |-> chatHistory, chatInput |-> value,
                    isChatLoading |-> isChatLoading]
    /\ UNCHANGED <<chatHistory, isChatLoading, inflight, requestCount, exchanges>>
    /\ UNCHANGED recVars
    /\ lastStep' = [op |-> "setChatInput"]

\* A resolution whose finally block clears both pending flags.
ResolveClearsBothFlags(r, resp) ==
    /\ r \in inflight
    /\ chatHistory' = Append(chatHistory, ReplyTurn(resp))
    /\ isChatLoading' = FALSE
    /\ isLoading' = FALSE
    /\ inflight' = inflight \ {r}
    /\ exchanges' = [exchanges EXCEPT ![r.id].reply = <<ReplyTurn(resp)>>]
    /\ UNCHANGED <<chatInput, rendered, requestCount>>
    /\ UNCHANGED <<skillsText, resumeFile, recommendations, skillsUsed, error,
                   timers, renderedLoading, analysed>>
    /\ lastStep' = [op |-> "resolve", id |-> r.id, response |-> resp]

\* A resolution that clears the flag at the end of try, not in finally.
ResolveClearsFlagOnSuccessOnly(r, resp) ==
    /\ r \in inflight
    /\ chatHistory' = Append(chatHistory, ReplyTurn(resp))
    /\ isChatLoading' = (isChatLoading /\ Throws(resp))
    /\ inflight' = inflight \ {r}
    /\ exchanges' = [exchanges EXCEPT ![r.id].reply = <<ReplyTurn(resp)>>]
    /\ UNCHANGED <<chatInput, rendered, requestCount>>
    /\ UNCHANGED recVars
    /\ lastStep' = [op |-> "resolve", id |-> r.id, response |-> resp]

\* A resolution whose catch block sends the same payload once more.
ResolveRetriesOnError(r, resp) ==
    /\ r \in inflight
    /\ chatHistory' = Append(chatHistory, ReplyTurn(resp))
    /\ isChatLoading' = FALSE
    /\ IF Throws(resp) /\ requestCount < MaxRequests
       THEN /\ inflight' = (inflight \ {r}) \cup
                    { [id |-> requestCount + 1, contents |-> r.contents] }
            /\ requestCount' = requestCount + 1
            /\ exchanges' = Append(
                    [exchanges EXCEPT ![r.id].reply = <<ReplyTurn(resp)>>],
                    [message |-> exchanges[r.id].message,
                     turn |-> exchanges[r.id].turn, reply |-> <<>>])
       ELSE /\ inflight' = inflight \ {r}
            /\ requestCount' = requestCount
            /\ exchanges' = [exchanges EXCEPT ![r.id].reply = <<ReplyTurn(resp)>>]
    /\ UNCHANGED <<chatInput, rendered>>
    /\ UNCHANGED recVars
    /\ lastStep' = [op |-> "resolve", id |-> r.id, response |-> resp]

\* The fetch of request r settles with resp and the rest of
\* sendMessageToGemini runs, lines 67-104: one turn appended through the
\* functional update, then the flag cleared in finally.
Resolve(r, resp) ==
    /\ r \in inflight
    /\ chatHistory' = Append(chatHistory, ReplyTurn(resp))
    /\ isChatLoading' = FALSE
    /\ inflight' = inflight \ {r}
    /\ exchanges' = [exchanges EXCEPT ![r.id].reply = <<ReplyTurn(resp)>>]
    /\ UNCHANGED <<chatInput, rendered, requestCount>>
    /\ UNCHANGED recVars
    /\ lastStep' = [op |-> "resolve", id |-> r.id, response |-> resp]

\* React re-renders after state updates made outside an event handler:
\* one commit for the whole component.
Render ==
    /\ rendered # View \/ renderedLoading # isLoading
    /\ rendered' = View
    /\ renderedLoading' = isLoading
    /\ UNCHANGED <<chatHistory, chatInput, isChatLoading, inflight,
                   requestCount, exchanges>>
    /\ UNCHANGED <<skillsText, resumeFile, recommendations, skillsUsed,
                   isLoading, error, timers, analysed>>
    /\ lastStep' = [op |-> "render"]

\* The skills textarea's onChange, lines 194-195.
SetSkillsText(value) ==
    /\ ~renderedLoading
    /\ skillsText' = value
    /\ renderedLoading' = isLoading
    /\ UNCHANGED <<resumeFile, recommendations, skillsUsed, isLoading, error,
                   timers, analysed>>
    /\ UNCHANGED chatVars
    /\ lastStep' = [op |-> "setSkillsText"]

\* handleFileChange, lines 113-116, behind the input's disabled flag (218).
HandleFileChange(file) ==
    /\ ~renderedLoading
    /\ resumeFile' = file
    /\ renderedLoading' = isLoading
    /\ UNCHANGED <<skillsText, recommendations, skillsUsed, isLoading, error,
                   timers, analysed>>
    /\ UNCHANGED chatVars
    /\ lastStep' = [op |-> "handleFileChange"]

\* handleRemoveFile, lines 118-122: the button exists while a file is
\* selected (227) and is never disabled.
HandleRemoveFile ==
    /\ resumeFile # NoFile
    /\ resumeFile' = NoFile
    /\ UNCHANGED <<skillsText, recommendations, skillsUsed, isLoading, error,
                   timers, renderedLoading, analysed>>
    /\ UNCHANGED chatVars
    /\ lastStep' = [op |-> "handleRemoveFile"]

\* handleSubmit up to its await, lines 124-139, behind the button's
\* disabled flag (242): the three resets, then the validation error, or
\* the pending flag and the timer.
HandleSubmit ==
    /\ ~renderedLoading
    /\ recommendations' = <<>>
    /\ skillsUsed' = <<>>
    /\ IF ~HasInput(skillsText, resumeFile)
       THEN /\ error' = ValidationError
            /\ UNCHANGED <<isLoading, timers>>
       ELSE /\ error' = NoError
            /\ isLoading' = TRUE
            /\ timers' = timers \cup
                  { [skillsText |-> skillsText, resumeFile |-> resumeFile] }
    /\ renderedLoading' = isLoading'
    /\ UNCHANGED <<skillsText, resumeFile, analysed>>
    /\ UNCHANGED chatVars
    /\ lastStep' = [op |-> "handleSubmit", skillsText |-> skillsText,
                    resumeFile |-> resumeFile]

\* The timer of line 139 fires and the rest of handleSubmit runs, lines
\* 141-154, with the skillsText its closure captured.
AnalysisDone(t) ==
    /\ t \in timers
    /\ recommendations' = MOCK_RECOMMENDATIONS
    /\ skillsUsed' = CombinedSkills(t.skillsText)
    /\ isLoading' = FALSE
    /\ timers' = timers \ {t}
    /\ analysed' = analysed \cup
          { [skillsText |-> t.skillsText, resumeFile |-> t.resumeFile,
             skillsUsed |-> CombinedSkills(t.skillsText)] }
    /\ UNCHANGED <<skillsText, resumeFile, error, renderedLoading>>
    /\ UNCHANGED chatVars
    /\ lastStep' = [op |-> "analysisDone", skillsText |-> t.skillsText,
                    resumeFile |-> t.resumeFile]

\* The component as shipped: every submit goes through the form.
Next ==
    \/ HandleChatSubmit
    \/ \E value \in Messages : SetChatInput(value)
    \/ \E r \in inflight, resp \in Responses : Resolve(r, resp)
    \/ Render

Spec == Init /\ [][Next]_vars

\* The submit operation called directly.
NextDirect ==
    \/ \E message \in Messages : Submit(message)
    \/ \E r \in inflight, resp \in Responses : Resolve(r, resp)
    \/ Render

SpecDirect == Init /\ [][NextDirect]_vars

\* The recommendation form.
NextRec ==
    \/ \E value \in SkillsTexts : SetSkillsText(value)
    \/ \E file \in Files : HandleFileChange(file)
    \/ HandleRemoveFile
    \/ HandleSubmit
    \/ \E t \in timers : AnalysisDone(t)
    \/ Render

SpecRec == Init /\ [][NextRec]_vars

\* The inputs the two forms are driven with when they run side by side.
AppMessages == { <<>>, <<" ", "a", " ", "b", " ">> }

AppResponses ==
    { resp \in Responses :
        \/ resp.net = "fail"
        \/ /\ HasText(resp)
           /\ resp.candidates[1].attributions = <<ValidB, NoTitle, ValidA>> }

AppSkillsTexts == { <<>>, <<" ", "P", "y", " ">> }

\* The whole component: both forms, one render.
NextApp ==
    \/ HandleChatSubmit
    \/ \E value \in AppMessages : SetChatInput(value)
    \/ \E r \in inflight, resp \in AppResponses : Resolve(r, resp)
    \/ \E value \in AppSkillsTexts : SetSkillsText(value)
    \/ \E file \in Files : HandleFileChange(file)
    \/ HandleRemoveFile
    \/ HandleSubmit
    \/ \E t \in timers : AnalysisDone(t)
    \/ Render

SpecApp == Init /\ [][NextApp]_vars

-----------------------------------------------------------------------------
(* Notions the claims use, stated apart from the code's own helpers *)

IsPrefix(s, t) == Len(s) <= Len(t) /\ SubSeq(t, 1, Len(s)) = s

\* Empty or whitespace only.
IsBlank(message) == \A i \in 1..Len(message) : message[i] \in Whitespace

Last(s) == s[Len(s)]

\* The step appended exactly one turn to the transcript.
AppendedOne ==
    /\ Len(chatHistory') = Len(chatHistory) + 1
    /\ SubSeq(chatHistory', 1, Len(chatHistory)) = chatHistory

UserTurnCount ==
    Cardinality({i \in 1..Len(chatHistory) : chatHistory[i].role = "user"})

\* Request k has settled on the success path (line 97 writes sources).
ResolvedOk(k) ==
    /\ exchanges[k].reply # <<>>
    /\ "sources" \in DOMAIN exchanges[k].reply[1]

-----------------------------------------------------------------------------
(* C1: after N non-blank submits, each made while no request is pending   *)
(* (the form allows no other) and each resolved successfully, the         *)
(* transcript is the greeting followed by N pairs: user turn k, then the  *)
(* assistant turn that answered request k; its length is 1 + 2N.          *)
C1_SequentialTranscript ==
    (\A k \in 1..Len(exchanges) : ResolvedOk(k)) =>
        /\ Len(chatHistory) = Len(InitialChatHistory) + 2 * Len(exchanges)
        /\ chatHistory[1] = InitialChatHistory[1]
        /\ \A k \in 1..Len(exchanges) :
              /\ chatHistory[2 * k] = exchanges[k].turn
              /\ chatHistory[2 * k].role = "user"
              /\ chatHistory[2 * k + 1] = exchanges[k].reply[1]
              /\ chatHistory[2 * k + 1].role = "model"

C1_Witness ==
    /\ Len(exchanges) = 2
    /\ \A k \in 1..2 : ResolvedOk(k)
    /\ exchanges[1].message # exchanges[2].message
    /\ \A k \in 1..2 : exchanges[k].reply[1].text # FallbackText
    /\ inflight = {}
    /\ Len(chatHistory) = 5

(* C2: at most one completion request is in flight, whoever calls submit. *)
C2_AtMostOneInFlight == Cardinality(inflight) <= 1

(* C3: the transcript is append-only: every step leaves the transcript    *)
(* it found as a prefix of the transcript it leaves.                      *)
C3_AppendOnly == [][IsPrefix(chatHistory, chatHistory')]_vars

(* C4: a submit with an empty or whitespace-only message changes neither  *)
(* the transcript, nor the pending flag, nor the requests issued or in    *)
(* flight.                                                                *)
C4_BlankSubmitNoOp ==
    [][(lastStep'.op = "submit" /\ IsBlank(lastStep'.message)) =>
          UNCHANGED <<chatHistory, isChatLoading, inflight, requestCount,
                      chatInput>>]_vars

C4_Witness ==
    /\ lastStep.op = "submit"
    /\ lastStep.message # <<>>
    /\ IsBlank(lastStep.message)
    /\ isChatLoading
    /\ requestCount = 1

\* Network failure or non-2xx status.
TransportFailure(resp) ==
    resp.net = "fail" \/ resp.status < 200 \/ resp.status > 299

(* C5: when a request fails in transport, exactly one turn is appended:   *)
(* an assistant turn with the apology text and no sources; the pending    *)
(* flag is false afterwards.                                              *)
C5_TransportFailure ==
    [][(lastStep'.op = "resolve" /\ TransportFailure(lastStep'.response)) =>
          /\ AppendedOne
          /\ Last(chatHistory').role = "model"
          /\ Last(chatHistory').text = ApologyText
          /\ SourcesOf(Last(chatHistory')) = <<>>
          /\ isChatLoading' = FALSE]_vars

C5_Witness ==
    /\ lastStep.op = "resolve"
    /\ lastStep.response.net = "ok"
    /\ lastStep.response.status = 500
    /\ Last(chatHistory).text = ApologyText
    /\ ~isChatLoading

(* C6: whatever a request resolves with, its resolution appends exactly   *)
(* one assistant turn and leaves the pending flag false.                  *)
C6_ResolutionReturnsToIdle ==
    [][lastStep'.op = "resolve" =>
          /\ AppendedOne
          /\ Last(chatHistory').role = "model"
          /\ isChatLoading' = FALSE
          /\ Cardinality(inflight') = Cardinality(inflight) - 1]_vars

\* A resolution whose reply could not be built: new URL threw at line 94.
C6_Witness ==
    /\ lastStep.op = "resolve"
    /\ ~TransportFailure(lastStep.response)
    /\ lastStep.response.json = "ok"
    /\ Throws(lastStep.response)
    /\ ~isChatLoading
    /\ inflight = {}

(* C7: the request a submit issues carries one role-tagged message per    *)
(* turn of the transcript up to and including the new user turn, in       *)
(* transcript order.                                                      *)
C7_RequestCarriesTranscript ==
    [][(lastStep'.op = "submit" /\ ~IsBlank(lastStep'.message)) =>
          /\ Cardinality(inflight' \ inflight) = 1
          /\ \A r \in inflight' \ inflight :
                /\ Len(r.contents) = Len(chatHistory')
                /\ \A i \in 1..Len(chatHistory') :
                      /\ r.contents[i].role = chatHistory'[i].role
                      /\ r.contents[i].parts = << [text |-> chatHistory'[i].text] >>
                /\ Last(r.contents).role = "user"]_vars

C7_Witness ==
    /\ lastStep.op = "submit"
    /\ \E r \in inflight :
          /\ r.id = 2
          /\ Len(r.contents) = 4
          /\ r.contents[3].role = "model"

(* C8: the user turn a non-blank submit appends holds the trimmed         *)
(* message.                                                               *)
C8_UserTurnIsTrimmed ==
    (lastStep.op = "submit" /\ ~IsBlank(lastStep.message)) =>
        Last(chatHistory) = [role |-> "user", text |-> Trim(lastStep.message)]

(* C9: the number of requests issued equals the number of user turns in   *)
(* the transcript.                                                        *)
C9_OneRequestPerUserTurn == requestCount = UserTurnCount

\* Two requests issued, the first of them failed: nothing was retried.
C9_Witness ==
    /\ requestCount = 2
    /\ exchanges[1].reply = <<ApologyTurn>>
    /\ inflight = {}

\* The attributions of a reply with text whose uri and title are both
\* non-empty, in the order returned.
SurvivingCitations(resp) ==
    IF resp.candidates[1].hasGrounding
    THEN SelectSeq(resp.candidates[1].attributions,
                   LAMBDA a : a.uri # "" /\ a.title # "")
    ELSE <<>>

HasCitationBlock(text) == \E i \in 1..Len(text) : text[i] = SourcesHeader[1]

\* The block the claim describes: the header, then per surviving source
\* one line with its 1-based index, its title and its hostname.
RECURSIVE ExpectedLines(_, _)
ExpectedLines(sources, n) ==
    IF n > Len(sources) THEN <<>>
    ELSE (IF n > 1 THEN <<"\n">> ELSE <<>>)
         \o << "[", ToString(n), "] ", sources[n].title, " (",
               Hostname(sources[n].uri), ")" >>
         \o ExpectedLines(sources, n + 1)

(* C10: for a 2xx reply with text, the assistant turn's text carries a    *)
(* citation block exactly when a citation survives filtering; the block   *)
(* is the header and one line per surviving source, in order, numbered    *)
(* from 1; with no survivor the sources are empty and the text is the     *)
(* reply text alone.                                                      *)
C10_CitationBlock ==
    (/\ lastStep.op = "resolve"
     /\ ~TransportFailure(lastStep.response)
     /\ lastStep.response.json = "ok"
     /\ lastStep.response.candidates # <<>>
     /\ lastStep.response.candidates[1].text # <<>>) =>
        LET resp == lastStep.response
            turn == exchanges[lastStep.id].reply[1]
            survivors == SurvivingCitations(resp)
        IN  /\ HasCitationBlock(turn.text) <=> (survivors # <<>>)
            /\ survivors = <<>> =>
                  /\ SourcesOf(turn) = <<>>
                  /\ turn.text = resp.candidates[1].text
            /\ survivors # <<>> =>
                  /\ SourcesOf(turn) = survivors
                  /\ turn.text = resp.candidates[1].text \o SourcesHeader
                                    \o ExpectedLines(survivors, 1)

\* A 2xx answer whose body parsed and whose first candidate has text.
RepliedWithText(resp) ==
    /\ ~TransportFailure(resp)
    /\ resp.json = "ok"
    /\ resp.candidates # <<>>
    /\ resp.candidates[1].text # <<>>

(* C11: for a 2xx reply with text, the assistant turn's sources are the   *)
(* attributions that have both a uri and a title, in the order the API    *)
(* gave them: none of those is dropped, and none other is kept.           *)
C11_SourcesAreFilteredAttributions ==
    (lastStep.op = "resolve" /\ RepliedWithText(lastStep.response)) =>
        SourcesOf(exchanges[lastStep.id].reply[1])
            = SurvivingCitations(lastStep.response)

\* The surviving citations whose uri parses.
RECURSIVE WellFormedCitations(_)
WellFormedCitations(sources) ==
    IF sources = <<>> THEN <<>>
    ELSE (IF UrlParses(Head(sources).uri) THEN <<Head(sources)>> ELSE <<>>)
         \o WellFormedCitations(Tail(sources))

(* C12: when a 2xx reply with text carries a surviving citation whose     *)
(* uri does not parse, that citation is dropped and the reply is still    *)
(* rendered: the assistant turn starts with the reply text, is not the    *)
(* apology, and its sources are the well-formed survivors.                *)
C12_MalformedCitationDropped ==
    (/\ lastStep.op = "resolve"
     /\ RepliedWithText(lastStep.response)
     /\ WellFormedCitations(SurvivingCitations(lastStep.response))
           # SurvivingCitations(lastStep.response)) =>
        LET resp == lastStep.response
            turn == exchanges[lastStep.id].reply[1]
        IN  /\ turn.text # ApologyText
            /\ IsPrefix(resp.candidates[1].text, turn.text)
            /\ SourcesOf(turn)
                  = WellFormedCitations(SurvivingCitations(resp))

\* A 2xx answer whose body parsed and whose first candidate is missing or
\* has no text.
RepliedWithoutText(resp) ==
    /\ ~TransportFailure(resp)
    /\ resp.json = "ok"
    /\ (resp.candidates = <<>> \/ resp.candidates[1].text = <<>>)

C14_ValidationError ==
    [][(/\ lastStep'.op = "handleSubmit"
        /\ IsBlank(lastStep'.skillsText)
        /\ lastStep'.resumeFile = NoFile) =>
          /\ error' = ValidationError
          /\ recommendations' = <<>>
          /\ skillsUsed' = <<>>
          /\ ~isLoading /\ ~isLoading'
          /\ timers' = timers
          /\ analysed' = analysed]_vars

C14_Witness ==
    /\ lastStep.op = "handleSubmit"
    /\ lastStep.skillsText # <<>>
    /\ IsBlank(lastStep.skillsText)
    /\ lastStep.resumeFile = NoFile
    /\ error = ValidationError
    /\ analysed # {}
    /\ recommendations = <<>>
    /\ timers = {}

\* Which inputs an analysis was given: "text", "file" or "both".
InputKind(a) ==
    IF IsBlank(a.skillsText) THEN "file"
    ELSE IF a.resumeFile = NoFile THEN "text"
    ELSE "both"

(* C15: the summary tells the input cases apart: two completed analyses   *)
(* given different kinds of input (text only, file only, both) never      *)
(* produce the same summary; in particular not for the same text with     *)
(* and without a file.                                                    *)
C15_SummaryTellsInputsApart ==
    \A a, b \in analysed :
        InputKind(a) # InputKind(b) => a.skillsUsed # b.skillsUsed

\* The text without its leading and trailing whitespace, computed from
\* its first and last non-whitespace positions.
Trimmed(text) ==
    LET solid == {i \in 1..Len(text) : text[i] \notin Whitespace}
    IN  IF solid = {} THEN <<>>
        ELSE SubSeq(text,
                    CHOOSE i \in solid : \A j \in solid : i <= j,
                    CHOOSE i \in solid : \A j \in solid : i >= j)

(* C15, as the code has it: the summary depends on the trimmed skills     *)
(* text alone. Two completed analyses produce the same summary exactly    *)
(* when their trimmed texts are equal, so file only is told apart from    *)
(* the cases with text, and text only is not told apart from text and     *)
(* file.                                                                  *)
C15_SummaryFollowsTextOnly ==
    \A a, b \in analysed :
        (a.skillsUsed = b.skillsUsed)
            <=> (Trimmed(a.skillsText) = Trimmed(b.skillsText))

C15_Witness ==
    \E a, b, c \in analysed :
        /\ InputKind(a) = "text" /\ InputKind(b) = "both"
        /\ a.skillsText = b.skillsText
        /\ a.skillsUsed = b.skillsUsed
        /\ InputKind(c) = "file"
        /\ c.skillsUsed # a.skillsUsed

\* sub occurs in s as a run of consecutive elements.
Contains(s, sub) ==
    \E i \in 0..(Len(s) - Len(sub)) : SubSeq(s, i + 1, i + Len(sub)) = sub

(* C16: an analysis requested with at least one input resolves to the     *)
(* fixed list of six recommendations, with the pending flag false and no  *)
(* error; when the skills text is not blank the summary contains the      *)
(* trimmed text and the fixed resume-skills string.                       *)
C16_AnalysisResult ==
    [][lastStep'.op = "analysisDone" =>
          /\ ~IsBlank(lastStep'.skillsText) \/ lastStep'.resumeFile # NoFile
          /\ recommendations' = MOCK_RECOMMENDATIONS
          /\ Len(recommendations') = 6
          /\ ~isLoading'
          /\ error' = NoError
          /\ ~IsBlank(lastStep'.skillsText) =>
                /\ Contains(skillsUsed', Trimmed(lastStep'.skillsText))
                /\ Contains(skillsUsed', <<MOCK_SKILLS_FROM_RESUME>>)]_vars

C16_Witness ==
    /\ lastStep.op = "analysisDone"
    /\ lastStep.skillsText = <<" ", "P", "y", " ">>
    /\ lastStep.resumeFile = NoFile
    /\ Len(recommendations) = 6
    /\ Contains(skillsUsed, <<"P", "y">>)
    /\ ~Contains(skillsUsed, <<" ", "P">>)
    /\ ~isLoading
    /\ timers = {}

(* C17: the step that submits a non-blank chat message through the form  *)
(* appends the user turn and nothing else, empties the input buffer and   *)
(* sets the pending flag; until the request resolves the user turn stays  *)
(* the last turn.                                                         *)
C17_AfterSubmit ==
    /\ [][lastStep'.op = "handleChatSubmit" =>
            /\ ~IsBlank(lastStep'.message)
            /\ AppendedOne
            /\ Last(chatHistory').role = "user"
            /\ Trimmed(Last(chatHistory').text) = Trimmed(lastStep'.message)
            /\ chatInput' = <<>>
            /\ isChatLoading'
            /\ \E r \in inflight' : r.id = requestCount']_vars
    /\ [](inflight # {} =>
            /\ Last(chatHistory) = exchanges[requestCount].turn
            /\ exchanges[requestCount].reply = <<>>
            /\ isChatLoading)

C17_Witness ==
    /\ lastStep.op = "handleChatSubmit"
    /\ requestCount = 2
    /\ Len(chatHistory) = 4
    /\ Last(chatHistory).role = "user"
    /\ chatInput = <<>>
    /\ isChatLoading
    /\ inflight # {}

\* The chat form would accept a submit: its button is enabled and the
\* model may still issue a request.
ChatFormReady ==
    /\ ~rendered.isChatLoading
    /\ ~IsBlank(rendered.chatInput)
    /\ requestCount < MaxRequests

(* C18: the two flows are independent: every chat step leaves the         *)
(* recommendation state unchanged, every recommendation step leaves the   *)
(* chat state unchanged, and a pending request in one flow never          *)
(* disables the submit of the other.                                      *)
C18_FlowsIndependent ==
    /\ [][(lastStep'.op \in {"handleChatSubmit", "setChatInput", "resolve"})
            => UNCHANGED recVars]_vars
    /\ [][(lastStep'.op \in {"setSkillsText", "handleFileChange",
                              "handleRemoveFile", "handleSubmit",
                              "analysisDone"})
            => UNCHANGED chatVars]_vars
    /\ [](ChatFormReady => ENABLED HandleChatSubmit)
    /\ [](~renderedLoading => ENABLED HandleSubmit)

C18_Witness ==
    /\ lastStep.op = "handleChatSubmit"
    /\ isLoading /\ timers # {}
    /\ isChatLoading /\ inflight # {}
    /\ analysed # {}
    /\ Len(chatHistory) = 4

(* C19: the pending flag is true exactly while a request is in flight,    *)
(* also when submit is called again before an earlier request resolves.   *)
C19_FlagTracksInFlight == isChatLoading <=> (inflight # {})

(* C20: the transcript starts with the greeting and alternates roles;     *)
(* its last turn is an assistant turn when no request is pending and a    *)
(* user turn when one is, and every request's contents end with a user    *)
(* message.                                                               *)
C20_Alternation ==
    /\ chatHistory[1] = InitialChatHistory[1]
    /\ chatHistory[1].role = "model"
    /\ \A i \in 1..(Len(chatHistory) - 1) :
          chatHistory[i].role # chatHistory[i + 1].role
    /\ ~isChatLoading => Last(chatHistory).role = "model"
    /\ isChatLoading => Last(chatHistory).role = "user"
    /\ \A r \in inflight : Last(r.contents).role = "user"

C20_Witness ==
    /\ Len(chatHistory) = 4
    /\ isChatLoading
    /\ inflight # {}
    /\ exchanges[1].reply = <<ApologyTurn>>
    /\ Last(chatHistory).role = "user"

====
